---- MODULE Spec2Model ----
(***************************************************************************)
(* Authentication / session subsystem of the MedAI application.            *)
(*   backend/server.js                    Express handlers (Session Manager)*)
(*   frontend/src/context/AuthContext.jsx React AuthProvider (client store) *)
(*                                                                         *)
(* Time is counted in weeks.  A JS value that is undefined / null / ""      *)
(* (every falsy string) is the empty string "" here; an absent token,      *)
(* user or cookie is the corresponding No... record.                       *)
(***************************************************************************)
EXTENDS Integers, Sequences, FiniteSets, TLC

\* ------------------------------------------------------------------ bounds
MaxTime == 2
MaxUsers == 2

Emails == {"a@x.com", "b@x.com"}
Passwords == {"p1", "p2"}
Names == {"Dr A"}

\* expiresIn: "7d" of jwt.sign and maxAge: 7 * 24 * 60 * 60 * 1000 of
\* res.cookie: seven days, one week
ExpiresIn == 1
MaxAge == 1

\* -------------------------------------------------------------- data model
\* bcrypt.hash(password, 10) and bcrypt.compare(password, hash)
Hash(password) == <<"bcrypt", password>>

NoHash == <<"bcrypt", "">>

Compare(password, hash) == password # "" /\ hash = Hash(password)

\* a mongoose User document; the field set is what toJSON would emit
UserFields == {"_id", "email", "passwordHash", "fullName", "doctorId", "hospitalName", "area"}

NoUser == [id |-> 0, email |-> "", passwordHash |-> NoHash, fullName |-> "", fields |-> {}]

NewUser(id, body) ==
  [id |-> id, email |-> body.email, passwordHash |-> Hash(body.password),
   fullName |-> body.fullName, fields |-> UserFields]

\* query.select("-passwordHash"): the document without that field
SelectMinusPasswordHashKeepsAll(doc) == doc

SelectMinusPasswordHash(doc) ==
  [doc EXCEPT !.passwordHash = NoHash, !.fields = doc.fields \ {"passwordHash"}]

\* { id: user._id, email: user.email, fullName: user.fullName }
UserSummary(u) ==
  [id |-> u.id, email |-> u.email, passwordHash |-> NoHash, fullName |-> u.fullName,
   fields |-> {"id", "email", "fullName"}]

\* User.findOne({ email }): the first document with that email, or null
RECURSIVE FindOne(_, _)
FindOne(us, email) ==
  IF us = <<>> THEN NoUser
  ELSE IF Head(us).email = email THEN Head(us)
  ELSE FindOne(Tail(us), email)

\* User.findById(id)
RECURSIVE FindById(_, _)
FindById(us, id) ==
  IF us = <<>> THEN NoUser
  ELSE IF Head(us).id = id THEN Head(us)
  ELSE FindById(Tail(us), id)

\* --------------------------------------------------------------- JWT
NoToken == [id |-> 0, email |-> "", exp |-> 0, sig |-> ""]

\* jwt.sign({ id, email }, JWT_SECRET, { expiresIn: "7d" })
JwtSign(u, t) ==
  [id |-> u.id, email |-> u.email, exp |-> t + ExpiresIn, sig |-> "JWT_SECRET"]

\* jwt.verify(token, JWT_SECRET) returns the payload; FALSE here is a throw
\* (JsonWebTokenError for a bad signature, TokenExpiredError once the clock
\* has reached exp)
JwtVerifyIgnoresExp(tok, t) == tok.sig = "JWT_SECRET"

JwtVerifiesAnySignature(tok, t) == t < tok.exp

JwtVerifies(tok, t) == tok.sig = "JWT_SECRET" /\ t < tok.exp

\* a token that was not signed with JWT_SECRET
Forged(id, email) == [id |-> id, email |-> email, exp |-> MaxTime + ExpiresIn + 1, sig |-> "other"]

\* ------------------------------------------------------ cookies and requests
\* the Set-Cookie headers of a response, one directive per cookie name:
\* op is "none" (header absent), "set" (res.cookie) or "clear" (res.clearCookie)
NoSetCookies ==
  [token |-> [op |-> "none", value |-> NoToken],
   user_email |-> [op |-> "none", value |-> ""]]

\* a browser cookie jar; the token cookie carries its expiry time (maxAge)
EmptyJar == [token |-> NoToken, tokenExpires |-> 0, user_email |-> ""]

\* what the browser does with the Set-Cookie headers of a response at time t
ApplySetCookies(j, sc, t) ==
  [token |-> IF sc.token.op = "set" THEN sc.token.value
             ELSE IF sc.token.op = "clear" THEN NoToken ELSE j.token,
   tokenExpires |-> IF sc.token.op = "set" THEN t + MaxAge
                    ELSE IF sc.token.op = "clear" THEN 0 ELSE j.tokenExpires,
   user_email |-> IF sc.user_email.op = "set" THEN sc.user_email.value
                  ELSE IF sc.user_email.op = "clear" THEN "" ELSE j.user_email]

\* the browser drops a cookie whose maxAge has run out
ExpireCookies(j, t) ==
  IF j.token # NoToken /\ t >= j.tokenExpires
  THEN [j EXCEPT !.token = NoToken, !.tokenExpires = 0]
  ELSE j

\* req.cookies of a credentialed request sent from jar j
CookiesOf(j) == [token |-> j.token, user_email |-> j.user_email]

\* the Authorization header: scheme "" and credentials NoToken when absent,
\* "<scheme> <credentials>", or the credentials alone (scheme "")
NoAuthorization == [scheme |-> "", credentials |-> NoToken]

\* req.headers.authorization?.split(" ")[1]: the second word, if there is one
AuthorizationSplit1(h) == IF h.scheme # "" THEN h.credentials ELSE NoToken

NoHeaders == [authorization |-> NoAuthorization, x_user_email |-> ""]

NoBody == [email |-> "", password |-> "", fullName |-> ""]

\* ---------------------------------------------------------------- responses
\* res.status(s).json({ message })
MessageResponse(s, m) ==
  [status |-> s, keys |-> {"message"}, message |-> m, error |-> "",
   user |-> NoUser, setCookies |-> NoSetCookies]

\* res.status(s).json({ error })
ErrorResponse(s, e) ==
  [status |-> s, keys |-> {"error"}, message |-> "", error |-> e,
   user |-> NoUser, setCookies |-> NoSetCookies]

\* res.json({ user }) after the res.cookie calls sc
UserResponse(u, sc) ==
  [status |-> 200, keys |-> {"user"}, message |-> "", error |-> "",
   user |-> u, setCookies |-> sc]

\* no response yet
NoResponse ==
  [status |-> 0, keys |-> {}, message |-> "", error |-> "",
   user |-> NoUser, setCookies |-> NoSetCookies]

\* -------------------------------------------------------------------- state
VARIABLES
  USE_JWT,          \* server: !!JWT_SECRET, read once at start-up
  users,            \* server: the User collection, in insertion order
  now,              \* the clock, in weeks
  last,             \* the last request built by hand, and the server's response to it
  held,             \* the token a requester kept from the last response that issued one
  jar,              \* browser: the cookie jar
  user,             \* AuthProvider: useState(null)
  loading,          \* AuthProvider: useState(true)
  isAuthenticated,  \* AuthProvider: useState(false)
  ops,              \* AuthProvider: the operations whose fetch has not settled
  parked,           \* server: register handlers between User.findOne and user.save
  settled           \* AuthProvider: the operation that has just settled, and how its fetch ended

vars == <<USE_JWT, users, now, last, held, jar, user, loading, isAuthenticated, ops, parked,
          settled>>

clientVars == <<jar, user, loading, isAuthenticated, ops, settled>>

\* which awaited call of a handler throws, if any: "lookup" is User.findOne /
\* User.findById, "crypto" is bcrypt.hash / bcrypt.compare (bcrypt.compare
\* rejects a password that is undefined; a password that is the string "" is
\* compared and does not match), "save" is user.save
Throws == {"none", "lookup", "crypto", "save"}

Request(route, cookies, headers, body) ==
  [route |-> route, cookies |-> cookies, headers |-> headers, body |-> body]

\* ----------------------------------------------------------------- handlers
\* the session issued by Register: res.cookie(...) by mode
RegisterSession(u) ==
  IF USE_JWT
  THEN [NoSetCookies EXCEPT !.token = [op |-> "set", value |-> JwtSign(u, now)]]
  ELSE [NoSetCookies EXCEPT !.user_email = [op |-> "set", value |-> u.email]]

\* the session issued by Login: res.cookie(...) by mode
LoginSessionBothCookies(u) ==
  [token |-> [op |-> "set", value |-> JwtSign(u, now)],
   user_email |-> [op |-> "set", value |-> u.email]]

LoginSession(u) ==
  IF USE_JWT
  THEN [NoSetCookies EXCEPT !.token = [op |-> "set", value |-> JwtSign(u, now)]]
  ELSE [NoSetCookies EXCEPT !.user_email = [op |-> "set", value |-> u.email]]

\* POST /api/auth/register up to the first await that lets other handlers run:
\* the validation and User.findOne.  A response with status 0 means the
\* handler goes on to hash and save.
RegisterLookupNoConflict(req, throws) ==
  IF req.body.email = "" \/ req.body.password = ""
  THEN MessageResponse(400, "Email and password are required")
  ELSE IF throws = "lookup" THEN MessageResponse(500, "Server error")
  ELSE NoResponse

RegisterLookup(req, throws) ==
  IF req.body.email = "" \/ req.body.password = ""
  THEN MessageResponse(400, "Email and password are required")
  ELSE IF throws = "lookup" THEN MessageResponse(500, "Server error")
  ELSE IF FindOne(users, req.body.email) # NoUser THEN MessageResponse(409, "User already exists")
  ELSE NoResponse

\* the document built by new User({...}) in the register handler
RegisterUser(req) == NewUser(Len(users) + 1, req.body)

\* POST /api/auth/register from bcrypt.hash on: hash, save, issue the session
RegisterSave(req, throws) ==
  IF throws \in {"crypto", "save"} THEN MessageResponse(500, "Server error")
  ELSE UserResponse(UserSummary(RegisterUser(req)), RegisterSession(RegisterUser(req)))

\* POST /api/auth/login
LoginDistinctMessages(req, throws) ==
  LET u == FindOne(users, req.body.email) IN
  IF throws = "lookup" THEN MessageResponse(500, "Server error")
  ELSE IF u = NoUser THEN MessageResponse(401, "User not found")
  ELSE IF throws = "crypto" THEN MessageResponse(500, "Server error")
  ELSE IF ~Compare(req.body.password, u.passwordHash)
       THEN MessageResponse(401, "Invalid credentials")
  ELSE UserResponse(UserSummary(u), LoginSession(u))

LoginSkipsCompare(req, throws) ==
  LET u == FindOne(users, req.body.email) IN
  IF throws = "lookup" THEN MessageResponse(500, "Server error")
  ELSE IF u = NoUser THEN MessageResponse(401, "Invalid credentials")
  ELSE IF throws = "crypto" THEN MessageResponse(500, "Server error")
  ELSE UserResponse(UserSummary(u), LoginSession(u))

Login(req, throws) ==
  LET u == FindOne(users, req.body.email) IN
  IF throws = "lookup" THEN MessageResponse(500, "Server error")
  ELSE IF u = NoUser THEN MessageResponse(401, "Invalid credentials")
  ELSE IF throws = "crypto" THEN MessageResponse(500, "Server error")
  ELSE IF ~Compare(req.body.password, u.passwordHash)
       THEN MessageResponse(401, "Invalid credentials")
  ELSE UserResponse(UserSummary(u), LoginSession(u))

\* req.cookies.token || req.headers.authorization?.split(" ")[1]
RequestToken(req) ==
  IF req.cookies.token # NoToken THEN req.cookies.token
  ELSE AuthorizationSplit1(req.headers.authorization)

\* req.cookies.user_email || req.headers["x-user-email"]
RequestEmail(req) ==
  IF req.cookies.user_email # "" THEN req.cookies.user_email
  ELSE req.headers.x_user_email

\* GET /api/auth/me
Me(req, throws) ==
  IF USE_JWT
  THEN IF RequestToken(req) = NoToken THEN MessageResponse(401, "Not authenticated")
       ELSE IF ~JwtVerifies(RequestToken(req), now) \/ throws = "lookup"
            THEN MessageResponse(401, "Invalid or expired token")
       ELSE IF FindById(users, RequestToken(req).id) = NoUser
            THEN MessageResponse(404, "User not found")
       ELSE UserResponse(SelectMinusPasswordHash(FindById(users, RequestToken(req).id)),
                         NoSetCookies)
  ELSE IF RequestEmail(req) = "" THEN MessageResponse(401, "Not authenticated")
       ELSE IF throws = "lookup" THEN MessageResponse(401, "Invalid or expired token")
       ELSE IF FindOne(users, RequestEmail(req)) = NoUser
            THEN MessageResponse(404, "User not found")
       ELSE UserResponse(SelectMinusPasswordHash(FindOne(users, RequestEmail(req))),
                         NoSetCookies)

\* res.json({ full_name, doctor_id, email, hospital_name, area, profile_picture })
ProfileResponse(u) ==
  [status |-> 200,
   keys |-> {"full_name", "doctor_id", "email", "hospital_name", "area", "profile_picture"},
   message |-> "", error |-> "",
   user |-> [id |-> 0, email |-> u.email, passwordHash |-> NoHash, fullName |-> u.fullName,
             fields |-> {}],
   setCookies |-> NoSetCookies]

\* GET /api/profile
Profile(req, throws) ==
  IF USE_JWT
  THEN IF RequestToken(req) = NoToken THEN MessageResponse(401, "Not authenticated")
       ELSE IF ~JwtVerifies(RequestToken(req), now) \/ throws = "lookup"
            THEN ErrorResponse(500, "Failed to fetch profile")
       ELSE IF FindById(users, RequestToken(req).id) = NoUser
            THEN MessageResponse(404, "User not found")
       ELSE ProfileResponse(SelectMinusPasswordHash(FindById(users, RequestToken(req).id)))
  ELSE IF RequestEmail(req) = "" THEN MessageResponse(401, "Not authenticated")
       ELSE IF throws = "lookup" THEN ErrorResponse(500, "Failed to fetch profile")
       ELSE IF FindOne(users, RequestEmail(req)) = NoUser
            THEN MessageResponse(404, "User not found")
       ELSE ProfileResponse(SelectMinusPasswordHash(FindOne(users, RequestEmail(req))))

\* POST /api/auth/logout
LogoutKeepsEmailCookie ==
  [status |-> 200, keys |-> {"ok"}, message |-> "", error |-> "", user |-> NoUser,
   setCookies |-> [token |-> [op |-> "clear", value |-> NoToken],
                   user_email |-> [op |-> "none", value |-> ""]]]

LogoutKeepsTokenCookie ==
  [status |-> 200, keys |-> {"ok"}, message |-> "", error |-> "", user |-> NoUser,
   setCookies |-> [token |-> [op |-> "none", value |-> NoToken],
                   user_email |-> [op |-> "clear", value |-> ""]]]

Logout ==
  [status |-> 200, keys |-> {"ok"}, message |-> "", error |-> "", user |-> NoUser,
   setCookies |-> [token |-> [op |-> "clear", value |-> NoToken],
                   user_email |-> [op |-> "clear", value |-> ""]]]

\* ------------------------------------------------------------ server actions
NoRequest == Request("", CookiesOf(EmptyJar), NoHeaders, NoBody)

\* whether the handler of req gets as far as the awaited call that throws
Reaches(req, throws) ==
  CASE throws = "none" -> FALSE
    [] req.route = "register" ->
         IF throws = "lookup" THEN req.body.email # "" /\ req.body.password # "" ELSE TRUE
    [] req.route = "login" ->
         \/ throws = "lookup"
         \/ throws = "crypto" /\ FindOne(users, req.body.email) # NoUser
    [] req.route \in {"me", "profile"} ->
         /\ throws = "lookup"
         /\ IF USE_JWT
            THEN RequestToken(req) # NoToken /\ JwtVerifies(RequestToken(req), now)
            ELSE RequestEmail(req) # ""
    [] OTHER -> FALSE

\* a request, the response to it, the call that threw while it was handled
\* ("none" if none did) and the time of the exchange
Exchange(req, resp, throws) ==
  [req |-> req, resp |-> resp,
   thrown |-> IF Reaches(req, throws) THEN throws ELSE "none", at |-> now]

\* the requester keeps the token of a response that sets one
Kept(resp) == IF resp.setCookies.token.op = "set" THEN resp.setCookies.token.value ELSE held

\* a token that is not signed with JWT_SECRET, and the e-mail values
ForgedToken == Forged(1, "a@x.com")

EmailChoices == {""} \cup Emails

PasswordChoices == {""} \cup Passwords

\* what a requester can put into a request by hand: any token it holds or has
\* made up, in the cookie or in the Authorization header with or without a
\* scheme, and any e-mail value in the user_email cookie or the x-user-email header
TokenChoices == {NoToken, held, ForgedToken}

AuthorizationChoices ==
  {NoAuthorization} \cup [scheme : {"Bearer"}, credentials : {held, ForgedToken}]
    \cup {[scheme |-> "", credentials |-> held]}

AllCookies == [token : TokenChoices, user_email : {"", "a@x.com"}]

AllHeaders == [authorization : AuthorizationChoices, x_user_email : {"", "b@x.com"}]

\* what the person at the browser types into the forms
TypedEmails == {"", "a@x.com"}

TypedRegistrations == [email : TypedEmails, password : {"", "p1"}, fullName : Names]

LoginBodies == [email : EmailChoices, password : PasswordChoices, fullName : {""}]

RegisterBodies == [email : EmailChoices, password : {"", "p1"}, fullName : Names]

\* the clock advances; the browser drops the token cookie when its maxAge is over
Tick ==
  /\ now < MaxTime
  /\ now' = now + 1
  /\ jar' = ExpireCookies(jar, now + 1)
  /\ UNCHANGED <<USE_JWT, users, last, held, user, loading, isAuthenticated, ops, parked, settled>>

\* a register request arrives: the handler answers 400 / 409 / 500 at once or
\* parks at its await with the lookup done (slot 0: not sent by the AuthProvider)
RawRegister(body, throws) ==
  LET req == Request("register", CookiesOf(EmptyJar), NoHeaders, body)
      resp == RegisterLookup(req, throws) IN
  /\ throws \in {"none", "lookup"}
  /\ IF resp = NoResponse
     THEN /\ Len(users) + Len(parked) < MaxUsers
          /\ parked' = Append(parked, [req |-> req, slot |-> 0])
          /\ UNCHANGED last
     ELSE last' = Exchange(req, resp, throws) /\ UNCHANGED parked
  /\ UNCHANGED <<USE_JWT, users, now, held, jar, user, loading, isAuthenticated, ops, settled>>

RawLogin(body, throws) ==
  LET req == Request("login", CookiesOf(EmptyJar), NoHeaders, body) IN
  /\ throws \in {"none", "lookup", "crypto"}
  /\ last' = Exchange(req, Login(req, throws), throws)
  /\ held' = Kept(Login(req, throws))
  /\ UNCHANGED <<USE_JWT, users, now, jar, user, loading, isAuthenticated, ops, parked, settled>>

RawMe(cookies, headers, throws) ==
  LET req == Request("me", cookies, headers, NoBody) IN
  /\ throws \in {"none", "lookup"}
  /\ last' = Exchange(req, Me(req, throws), throws)
  /\ UNCHANGED <<USE_JWT, users, now, held, jar, user, loading, isAuthenticated, ops, parked, settled>>

RawProfile(cookies, headers, throws) ==
  LET req == Request("profile", cookies, headers, NoBody) IN
  /\ throws \in {"none", "lookup"}
  /\ last' = Exchange(req, Profile(req, throws), throws)
  /\ UNCHANGED <<USE_JWT, users, now, held, jar, user, loading, isAuthenticated, ops, parked, settled>>

RawLogout(cookies) ==
  LET req == Request("logout", cookies, NoHeaders, NoBody) IN
  /\ last' = Exchange(req, Logout, "none")
  /\ UNCHANGED <<USE_JWT, users, now, held, jar, user, loading, isAuthenticated, ops, parked, settled>>

\* ------------------------------------------------------------ AuthProvider
\* one call of checkAuthStatus / login / register / logout whose fetch is out:
\*   "pending"   the mount effect that calls checkAuthStatus has not run yet
\*   "inflight"  the request is with the server (a parked register handler)
\*   "responded" a response is on its way back
NoOp == [kind |-> "none", phase |-> "", auto |-> FALSE, resp |-> NoResponse, parses |-> TRUE]

Op(kind, phase, auto, resp, parses) ==
  [kind |-> kind, phase |-> phase, auto |-> auto, resp |-> resp, parses |-> parses]

Slots == {1, 2}

NoOps == [s \in Slots |-> NoOp]

Free(s) == ops[s].kind = "none" /\ \A r \in Slots : r < s => ops[r].kind # "none"

Mounted == \A s \in Slots : ops[s].phase # "pending"

\* nothing has settled since the last call
NoneSettled == [kind |-> "none", auto |-> FALSE, outcome |-> ""]

\* where a fetch ends: at this server, or at a gateway in front of it, which
\* answers by itself with a status and a body that may not parse as JSON,
\* never with a user payload.  (A fetch that rejects is a response that is
\* not delivered, see Settles.)
Via(by, status, parses) == [by |-> by, status |-> status, parses |-> parses]

Vias ==
  {Via("server", 0, TRUE),
   Via("gateway", 200, TRUE), Via("gateway", 200, FALSE),
   Via("gateway", 403, TRUE), Via("gateway", 502, FALSE)}

GatewayResponse(status) ==
  [status |-> status, keys |-> {}, message |-> "", error |-> "",
   user |-> NoUser, setCookies |-> NoSetCookies]

\* fetch(...) with credentials: "include": the browser attaches the jar
ClientRequest(route, body) == Request(route, CookiesOf(jar), NoHeaders, body)

\* the fetch of an operation whose handler answers in one step
Fetch(s, kind, auto, resp, throws, via) ==
  /\ settled' = NoneSettled
  /\ \/ /\ via.by = "server"
        /\ ops' = [ops EXCEPT ![s] = Op(kind, "responded", auto, resp, TRUE)]
     \/ /\ via.by = "gateway"
        /\ throws = "none"
        /\ ops' = [ops EXCEPT ![s] = Op(kind, "responded", auto, GatewayResponse(via.status), via.parses)]

\* useEffect(() => { checkAuthStatus(); }, []) runs after the first render
MountEffect(s, throws, via) ==
  LET req == ClientRequest("me", NoBody) IN
  /\ ops[s].phase = "pending"
  /\ throws \in {"none", "lookup"}
  /\ Fetch(s, "check", TRUE, Me(req, throws), throws, via)
  /\ UNCHANGED <<USE_JWT, users, now, last, held, jar, user, loading, isAuthenticated, parked>>

\* checkAuthStatus() called through the context value: up to the fetch
checkAuthStatus(s, throws, via) ==
  LET req == ClientRequest("me", NoBody) IN
  /\ Mounted /\ Free(s)
  /\ throws \in {"none", "lookup"}
  /\ Fetch(s, "check", FALSE, Me(req, throws), throws, via)
  /\ UNCHANGED <<USE_JWT, users, now, last, held, jar, user, loading, isAuthenticated, parked>>

\* login(email, password): setLoading(true) and the fetch
loginWithoutSetLoading(s, email, password, throws, via) ==
  LET req == ClientRequest("login", [email |-> email, password |-> password, fullName |-> ""]) IN
  /\ Mounted /\ Free(s)
  /\ throws \in {"none", "lookup", "crypto"}
  /\ Fetch(s, "login", FALSE, Login(req, throws), throws, via)
  /\ UNCHANGED <<USE_JWT, users, now, last, held, jar, user, isAuthenticated, parked, loading>>

login(s, email, password, throws, via) ==
  LET req == ClientRequest("login", [email |-> email, password |-> password, fullName |-> ""]) IN
  /\ Mounted /\ Free(s)
  /\ throws \in {"none", "lookup", "crypto"}
  /\ loading' = TRUE
  /\ Fetch(s, "login", FALSE, Login(req, throws), throws, via)
  /\ UNCHANGED <<USE_JWT, users, now, last, held, jar, user, isAuthenticated, parked>>

\* register(userData): setLoading(true) and the fetch; at the server the
\* handler answers at once or parks at its await
register(s, body, throws, via) ==
  LET req == ClientRequest("register", body)
      resp == RegisterLookup(req, throws) IN
  /\ Mounted /\ Free(s)
  /\ throws \in {"none", "lookup"}
  /\ loading' = TRUE
  /\ IF via.by = "server" /\ resp = NoResponse
     THEN /\ Len(users) + Len(parked) < MaxUsers
          /\ parked' = Append(parked, [req |-> req, slot |-> s])
          /\ ops' = [ops EXCEPT ![s] = Op("register", "inflight", FALSE, NoResponse, TRUE)]
          /\ settled' = NoneSettled
     ELSE /\ Fetch(s, "register", FALSE, resp, throws, via)
          /\ UNCHANGED parked
  /\ UNCHANGED <<USE_JWT, users, now, last, held, jar, user, isAuthenticated>>

\* logout(): the fetch
logout(s, via) ==
  LET req == ClientRequest("logout", NoBody) IN
  /\ Mounted /\ Free(s)
  /\ Fetch(s, "logout", FALSE, Logout, "none", via)
  /\ UNCHANGED <<USE_JWT, users, now, last, held, jar, user, loading, isAuthenticated, parked>>

\* the User schema (models/User.js) declares email unique: user.save() of a
\* document whose email a stored document has is rejected with a duplicate
\* key error
UniqueIndexAcceptsAll(us, doc) == FALSE

UniqueIndexRejects(us, doc) == \E i \in 1..Len(us) : us[i].email = doc.email

\* which call of the resumed handler throws: the one that fails by itself, or
\* user.save when the unique index rejects the document
ResumeThrows(req, throws) ==
  IF throws = "none" /\ UniqueIndexRejects(users, RegisterUser(req)) THEN "save" ELSE throws

\* a parked register handler resumes: bcrypt.hash, user.save, session, response
RegisterResumeStoresOnFailure(i, fails) ==
  LET h == parked[i]
      throws == ResumeThrows(h.req, fails)
      resp == RegisterSave(h.req, throws) IN
  /\ fails \in {"none", "crypto", "save"}
  /\ parked' = SubSeq(parked, 1, i - 1) \o SubSeq(parked, i + 1, Len(parked))
  /\ users' = IF throws # "crypto" THEN Append(users, RegisterUser(h.req)) ELSE users
  /\ last' = IF h.slot = 0 THEN Exchange(h.req, resp, throws) ELSE last
  /\ held' = IF h.slot = 0 THEN Kept(resp) ELSE held
  /\ ops' = IF h.slot = 0 THEN ops
            ELSE [ops EXCEPT ![h.slot] = Op("register", "responded", FALSE, resp, TRUE)]
  /\ UNCHANGED <<USE_JWT, now, jar, user, loading, isAuthenticated, settled>>

RegisterResume(i, fails) ==
  LET h == parked[i]
      throws == ResumeThrows(h.req, fails)
      resp == RegisterSave(h.req, throws) IN
  /\ fails \in {"none", "crypto", "save"}
  /\ parked' = SubSeq(parked, 1, i - 1) \o SubSeq(parked, i + 1, Len(parked))
  /\ users' = IF resp.status = 200 THEN Append(users, RegisterUser(h.req)) ELSE users
  /\ last' = IF h.slot = 0 THEN Exchange(h.req, resp, throws) ELSE last
  /\ held' = IF h.slot = 0 THEN Kept(resp) ELSE held
  /\ ops' = IF h.slot = 0 THEN ops
            ELSE [ops EXCEPT ![h.slot] = Op("register", "responded", FALSE, resp, TRUE)]
  /\ UNCHANGED <<USE_JWT, now, jar, user, loading, isAuthenticated, settled>>

\* response.ok
Ok(resp) == resp.status >= 200 /\ resp.status <= 299

\* the jar once the fetch of ops[s] has settled: a delivered response's
\* Set-Cookie headers are applied; a fetch that rejects (the connection
\* failed) leaves the jar alone
JarAfter(s, delivered) ==
  IF delivered THEN ApplySetCookies(jar, ops[s].resp.setCookies, now) ELSE jar

\* how the fetch of ops[s] ended: it rejected, or it resolved with a response
\* that is ok or not
Outcome(s, delivered) ==
  IF ~delivered THEN "rejected" ELSE IF Ok(ops[s].resp) THEN "ok" ELSE "error"

Settles(s, kind, delivered) ==
  /\ ops[s].kind = kind
  /\ ops[s].phase = "responded"
  /\ ops' = [ops EXCEPT ![s] = NoOp]
  /\ jar' = JarAfter(s, delivered)
  /\ settled' = [kind |-> kind, auto |-> ops[s].auto, outcome |-> Outcome(s, delivered)]

\* checkAuthStatus from the fetch's settling on: try / catch / finally
checkAuthStatusKeepsLoading(s, delivered) ==
  LET r == ops[s].resp IN
  /\ Settles(s, "check", delivered)
  /\ IF ~delivered \/ (Ok(r) /\ ~ops[s].parses)
     THEN user' = NoUser /\ isAuthenticated' = FALSE
     ELSE IF Ok(r)
          THEN IF r.user # NoUser
               THEN user' = r.user /\ isAuthenticated' = TRUE
               ELSE user' = NoUser /\ isAuthenticated' = FALSE
          ELSE IF r.status = 401 \/ r.status = 403
               THEN user' = NoUser /\ isAuthenticated' = FALSE
               ELSE UNCHANGED <<user, isAuthenticated>>
  /\ UNCHANGED <<USE_JWT, users, now, last, held, parked, loading>>

checkAuthStatusForgetsFlag(s, delivered) ==
  LET r == ops[s].resp IN
  /\ Settles(s, "check", delivered)
  /\ IF ~delivered \/ (Ok(r) /\ ~ops[s].parses)
     THEN user' = NoUser /\ isAuthenticated' = FALSE
     ELSE IF Ok(r)
          THEN IF r.user # NoUser
               THEN user' = r.user /\ isAuthenticated' = TRUE
               ELSE user' = NoUser /\ isAuthenticated' = FALSE
          ELSE IF r.status = 401 \/ r.status = 403
               THEN user' = NoUser /\ UNCHANGED isAuthenticated
               ELSE UNCHANGED <<user, isAuthenticated>>
  /\ loading' = FALSE
  /\ UNCHANGED <<USE_JWT, users, now, last, held, parked>>

checkAuthStatusSettles(s, delivered) ==
  LET r == ops[s].resp IN
  /\ Settles(s, "check", delivered)
  /\ IF ~delivered \/ (Ok(r) /\ ~ops[s].parses)
     THEN user' = NoUser /\ isAuthenticated' = FALSE
     ELSE IF Ok(r)
          THEN IF r.user # NoUser
               THEN user' = r.user /\ isAuthenticated' = TRUE
               ELSE user' = NoUser /\ isAuthenticated' = FALSE
          ELSE IF r.status = 401 \/ r.status = 403
               THEN user' = NoUser /\ isAuthenticated' = FALSE
               ELSE UNCHANGED <<user, isAuthenticated>>
  /\ loading' = FALSE
  /\ UNCHANGED <<USE_JWT, users, now, last, held, parked>>

\* login from the fetch's settling on; response.json().catch(() => ({}))
\* turns an unparsable body into {}
loginSettlesClearsOnFailure(s, delivered) ==
  LET r == ops[s].resp IN
  /\ Settles(s, "login", delivered)
  /\ IF delivered /\ Ok(r) /\ ops[s].parses /\ r.user # NoUser
     THEN user' = r.user /\ isAuthenticated' = TRUE
     ELSE user' = NoUser /\ isAuthenticated' = FALSE
  /\ loading' = FALSE
  /\ UNCHANGED <<USE_JWT, users, now, last, held, parked>>

loginSettles(s, delivered) ==
  LET r == ops[s].resp IN
  /\ Settles(s, "login", delivered)
  /\ IF delivered /\ Ok(r) /\ ops[s].parses /\ r.user # NoUser
     THEN user' = r.user /\ isAuthenticated' = TRUE
     ELSE UNCHANGED <<user, isAuthenticated>>
  /\ loading' = FALSE
  /\ UNCHANGED <<USE_JWT, users, now, last, held, parked>>

\* register from the fetch's settling on: toasts and the result only
registerSettlesLogsIn(s, delivered) ==
  LET r == ops[s].resp IN
  /\ Settles(s, "register", delivered)
  /\ loading' = FALSE
  /\ IF delivered /\ Ok(r) /\ r.user # NoUser
     THEN user' = r.user /\ isAuthenticated' = TRUE
     ELSE UNCHANGED <<user, isAuthenticated>>
  /\ UNCHANGED <<USE_JWT, users, now, last, held, parked>>

registerSettles(s, delivered) ==
  /\ Settles(s, "register", delivered)
  /\ loading' = FALSE
  /\ UNCHANGED <<USE_JWT, users, now, last, held, parked, user, isAuthenticated>>

\* logout from the fetch's settling on: catch / finally
logoutSettlesOnSuccessOnly(s, delivered) ==
  LET r == ops[s].resp IN
  /\ Settles(s, "logout", delivered)
  /\ IF delivered /\ Ok(r)
     THEN user' = NoUser /\ isAuthenticated' = FALSE
     ELSE UNCHANGED <<user, isAuthenticated>>
  /\ UNCHANGED <<USE_JWT, users, now, last, held, parked, loading>>

logoutSettles(s, delivered) ==
  /\ Settles(s, "logout", delivered)
  /\ user' = NoUser
  /\ isAuthenticated' = FALSE
  /\ UNCHANGED <<USE_JWT, users, now, last, held, parked, loading>>

\* the page is loaded again: a new AuthProvider over the same cookie jar
InitialOps == [s \in Slots |-> IF s = 1 THEN Op("check", "pending", TRUE, NoResponse, TRUE) ELSE NoOp]

Reload ==
  /\ \A s \in Slots : ops[s].kind = "none"
  /\ user' = NoUser
  /\ loading' = TRUE
  /\ isAuthenticated' = FALSE
  /\ ops' = InitialOps
  /\ settled' = NoneSettled
  /\ UNCHANGED <<USE_JWT, users, now, last, held, jar, parked>>

\* ------------------------------------------------------------ specification
Init ==
  /\ USE_JWT \in BOOLEAN
  /\ users = <<>>
  /\ now = 0
  /\ last = Exchange(NoRequest, NoResponse, "none")
  /\ held = NoToken
  /\ jar = EmptyJar
  /\ user = NoUser
  /\ loading = TRUE
  /\ isAuthenticated = FALSE
  /\ ops = InitialOps
  /\ parked = <<>>
  /\ settled = NoneSettled

\* the bodies and the credentials of the requests built by hand; a claim
\* ranges over more (LoginBodies, RegisterBodies, AllCookies, AllHeaders)
RawLoginBodies == [email : Emails, password : Passwords, fullName : {""}]

RawRegisterBodies ==
  [email : Emails, password : {"p1"}, fullName : Names]
    \cup {[email |-> "a@x.com", password |-> "", fullName |-> "Dr A"]}

\* <<cookies, headers>>
Credentials(token, user_email, authorization, x_user_email) ==
  <<[token |-> token, user_email |-> user_email],
    [authorization |-> authorization, x_user_email |-> x_user_email]>>

RawCredentials ==
  {Credentials(NoToken, "", NoAuthorization, ""),
   Credentials(held, "", NoAuthorization, ""),
   Credentials(ForgedToken, "", [scheme |-> "Bearer", credentials |-> held], ""),
   Credentials(NoToken, "", [scheme |-> "Bearer", credentials |-> held], ""),
   Credentials(NoToken, "", NoAuthorization, "b@x.com"),
   Credentials(held, "a@x.com", NoAuthorization, "")}

ServerNext ==
  \/ Tick
  \/ \E body \in RawRegisterBodies, throws \in Throws : RawRegister(body, throws)
  \/ \E i \in 1..Len(parked), throws \in Throws : RegisterResume(i, throws)
  \/ \E body \in RawLoginBodies, throws \in Throws : RawLogin(body, throws)
  \/ \E c \in RawCredentials, throws \in Throws : RawMe(c[1], c[2], throws)
  \/ \E c \in RawCredentials, throws \in Throws : RawProfile(c[1], c[2], throws)
  \/ \E c \in RawCredentials : RawLogout(c[1])

ClientNext ==
  \/ \E s \in Slots, throws \in Throws, via \in Vias : MountEffect(s, throws, via)
  \/ \E s \in Slots, throws \in Throws, via \in Vias : checkAuthStatus(s, throws, via)
  \/ \E s \in Slots, e \in TypedEmails, p \in PasswordChoices, throws \in Throws, via \in Vias :
       login(s, e, p, throws, via)
  \/ \E s \in Slots, body \in TypedRegistrations, throws \in Throws, via \in Vias : register(s, body, throws, via)
  \/ \E s \in Slots, via \in Vias : logout(s, via)
  \/ \E i \in 1..Len(parked), throws \in Throws : RegisterResume(i, throws)
  \/ \E s \in Slots, delivered \in BOOLEAN : checkAuthStatusSettles(s, delivered)
  \/ \E s \in Slots, delivered \in BOOLEAN : loginSettles(s, delivered)
  \/ \E s \in Slots, delivered \in BOOLEAN : registerSettles(s, delivered)
  \/ \E s \in Slots, delivered \in BOOLEAN : logoutSettles(s, delivered)
  \/ Reload

Next == ServerNext \/ ClientNext

Spec == Init /\ [][Next]_vars

\* the server alone, answering requests built by hand
ServerSpec == Init /\ [][ServerNext]_vars

\* the AuthProvider in a browser, talking to the server, with the clock held
ClientSpec == Init /\ [][ClientNext]_vars

\* the same, with what the runtime guarantees: the mount effect runs, and
\* each fetch of checkAuthStatus that is out settles (it resolves or it rejects)
ClientLiveSpec ==
  /\ ClientSpec
  /\ WF_vars(\E s \in Slots, throws \in Throws, via \in Vias : MountEffect(s, throws, via))
  /\ \A s \in Slots : WF_vars(\E delivered \in BOOLEAN : checkAuthStatusSettles(s, delivered))

\* a requester that never registers and never logs in sends requests built by
\* hand to the identity endpoints, while a browser registers users
IntruderNext ==
  \/ Tick
  \/ \E s \in Slots, throws \in Throws, via \in {Via("server", 0, TRUE)} : MountEffect(s, throws, via)
  \/ \E s \in Slots, body \in TypedRegistrations, throws \in Throws, via \in {Via("server", 0, TRUE)} :
       register(s, body, throws, via)
  \/ \E i \in 1..Len(parked), throws \in Throws : RegisterResume(i, throws)
  \/ \E s \in Slots, delivered \in BOOLEAN : checkAuthStatusSettles(s, delivered)
  \/ \E s \in Slots, delivered \in BOOLEAN : registerSettles(s, delivered)
  \/ \E c \in RawCredentials, throws \in Throws : RawMe(c[1], c[2], throws)
  \/ \E c \in RawCredentials, throws \in Throws : RawProfile(c[1], c[2], throws)

IntruderSpec == Init /\ [][IntruderNext]_vars

\* ------------------------------------------------------------------ claims
\* the requests a claim ranges over: every request of the route that can be
\* built from the cookie, header and body values above
RegisterRequests == {Request("register", CookiesOf(EmptyJar), NoHeaders, b) : b \in RegisterBodies}

LoginRequests == {Request("login", CookiesOf(EmptyJar), NoHeaders, b) : b \in LoginBodies}

IdentityRequests(route) == {Request(route, c, h, NoBody) : c \in AllCookies, h \in AllHeaders}

Stored(email) == \E i \in 1..Len(users) : users[i].email = email

\* C1 as stated: every Register request whose email is the email of a stored
\* user is answered 409 "User already exists" (and changes nothing in the store).
C1_AsStated ==
  \A req \in RegisterRequests :
    Stored(req.body.email) =>
      RegisterLookup(req, "none") = MessageResponse(409, "User already exists")

\* C1 amended: a Register request that carries a password, whose email is the
\* email of a stored user and whose lookup does not throw, is answered 409
\* "User already exists"; and an exchange that ends in 409 leaves the user
\* store as it was.  In token mode and in cookie mode.
C1_DuplicateAnswered ==
  \A req \in RegisterRequests :
    (Stored(req.body.email) /\ req.body.password # "") =>
      RegisterLookup(req, "none") = MessageResponse(409, "User already exists")

C1_DuplicateRegister409 ==
  /\ []C1_DuplicateAnswered
  /\ [][(last' # last /\ last'.req.route = "register" /\ last'.resp.status = 409)
          => users' = users]_vars

C1_Witness ==
  /\ last.req.route = "register"
  /\ last.resp = MessageResponse(409, "User already exists")
  /\ Stored(last.req.body.email)
  /\ Len(users) = 1

\* C2: a Login that fails because no stored user has the email, and a Login
\* that fails because the password does not verify, get the same response:
\* 401 "Invalid credentials", no cookie.
C2_LoginFailuresIdentical ==
  \A req \in LoginRequests :
    LET u == FindOne(users, req.body.email) IN
    (u = NoUser \/ ~Compare(req.body.password, u.passwordHash)) =>
      Login(req, "none") = MessageResponse(401, "Invalid credentials")

C2_Witness ==
  /\ last.req.route = "login"
  /\ last.thrown = "none"
  /\ last.resp.status = 401
  /\ Stored(last.req.body.email)
  /\ \E e \in Emails : ~Stored(e)

\* a request presents token tok: in the token cookie, or with no token cookie
\* as the credentials of a Bearer Authorization header
Presents(req, tok) ==
  \/ req.cookies.token = tok
  \/ /\ req.cookies.token = NoToken
     /\ req.headers.authorization = [scheme |-> "Bearer", credentials |-> tok]

\* C3: in token mode the token a Login issues carries the id under which
\* Register stored the user (the id Register's own response reports) and
\* expires 7 days after it was issued; GET /api/auth/me presenting an issued
\* token resolves to that user while it has not expired, and answers 401 once
\* the expiry time is reached, whatever else happens while it is handled.
C3_TokenIdAndExpiry ==
  USE_JWT =>
    /\ \A req \in LoginRequests :
         LET r == Login(req, "none") IN
         r.status = 200 =>
           /\ r.setCookies.token.op = "set"
           /\ r.setCookies.token.value.id = r.user.id
           /\ r.setCookies.token.value.exp = now + ExpiresIn
           /\ \E i \in 1..Len(users) :
                users[i].id = r.user.id /\ users[i].email = req.body.email
    /\ (last.req.route = "register" /\ last.resp.status = 200) =>
         \E i \in 1..Len(users) :
           /\ users[i].id = last.resp.user.id
           /\ users[i].email = last.req.body.email
           /\ last.resp.setCookies.token.value.id = users[i].id
    /\ held # NoToken =>
         LET presenting == {req \in IdentityRequests("me") : Presents(req, held)} IN
         IF now < held.exp
         THEN \A r \in {Me(req, "none") : req \in presenting} :
                r.status = 200 /\ r.user.id = held.id /\ r.user.email = held.email
         ELSE \A r \in {Me(req, throws) : req \in presenting, throws \in Throws} :
                r.status = 401

C3_Witness ==
  /\ USE_JWT
  /\ held # NoToken
  /\ now >= held.exp
  /\ last.req.route = "me"
  /\ Presents(last.req, held)
  /\ last.resp.status = 401

\* C4: no successful response of GET /api/auth/me or GET /api/profile carries
\* the passwordHash field or the hash itself, in either mode, whatever the
\* store holds.
C4_NoPasswordHash ==
  \A r \in {Me(req, throws) : req \in IdentityRequests("me"), throws \in {"none", "lookup"}}
           \cup {Profile(req, throws) : req \in IdentityRequests("profile"),
                                        throws \in {"none", "lookup"}} :
    r.status = 200 =>
      /\ "passwordHash" \notin r.keys
      /\ "passwordHash" \notin r.user.fields
      /\ r.user.passwordHash = NoHash

C4_Witness ==
  /\ last.req.route = "me"
  /\ last.resp.status = 200
  /\ last.resp.user.id # 0
  /\ FindById(users, last.resp.user.id).passwordHash # NoHash

\* C7 as stated: in token mode GET /api/auth/me and GET /api/profile answer a
\* request that presents an invalid or expired token with 401, as they answer
\* a request without a token.
C7_InvalidToken401 ==
  ( /\ USE_JWT
    /\ last.req.route \in {"me", "profile"}
    /\ RequestToken(last.req) # NoToken
    /\ ~JwtVerifies(RequestToken(last.req), last.at) )
  => last.resp.status = 401

\* C8 as stated: when an awaited persistence or crypto call throws while a
\* request is handled, the response is 500 with a JSON body that has a
\* message field.
C8_Failure500Message ==
  last.thrown # "none" => (last.resp.status = 500 /\ "message" \in last.resp.keys)

\* C9: Logout answers 200 {ok: true} whatever the mode and the jar; a jar that
\* takes the response's Set-Cookie headers holds neither the token cookie nor
\* the user_email cookie afterwards, and a second Logout changes nothing more.
C9_LogoutClearsBoth ==
  /\ Logout.status = 200
  /\ Logout.keys = {"ok"}
  /\ \A j1 \in {ApplySetCookies([token |-> c.token, tokenExpires |-> now + MaxAge,
                                   user_email |-> c.user_email], Logout.setCookies, now) :
                  c \in AllCookies} :
       /\ j1.token = NoToken
       /\ j1.user_email = ""
       /\ ApplySetCookies(j1, Logout.setCookies, now) = j1
  /\ last.req.route = "logout" => last.resp = Logout

C9_Witness ==
  /\ last.req.route = "logout"
  /\ last.req.cookies.token # NoToken
  /\ last.req.cookies.user_email # ""
  /\ last.resp.status = 200
  /\ ApplySetCookies([token |-> last.req.cookies.token, tokenExpires |-> now + MaxAge,
                      user_email |-> last.req.cookies.user_email],
                     last.resp.setCookies, now) = EmptyJar

\* C5: when a logout() call has settled, user is absent and isAuthenticated is
\* false, whether its request was answered with success, answered with an
\* error status, or never answered (the fetch rejected).
C5_LogoutAlwaysClears ==
  settled.kind = "logout" => (user = NoUser /\ isAuthenticated = FALSE)

C5_Witness ==
  /\ settled.kind = "logout"
  /\ settled.outcome = "rejected"
  /\ jar # EmptyJar
  /\ user = NoUser
  /\ isAuthenticated = FALSE

\* the Unknown state of the client, and whether the checkAuthStatus call of
\* the mount effect is still out
Unknown == loading /\ user = NoUser

AutoCheckOut == \E s \in Slots : ops[s].auto

\* C6 as stated: once the automatic CheckStatus has settled, the client is
\* never in Unknown.
C6_NeverUnknownAgain == ~AutoCheckOut => ~Unknown

\* C6 amended: the automatic CheckStatus eventually settles; when it settles
\* loading is false whatever the outcome, so the client is out of Unknown at
\* that point (a later login or register call sets loading again).  A check
\* sent from an empty jar comes back without a user, and a check that settles
\* without a user leaves the client Unauthenticated, except that a response
\* status other than 2xx / 401 / 403 leaves user and isAuthenticated as they were.
C6_SettleStep(s) ==
  (ops[s].kind = "check" /\ ops[s].phase = "responded" /\ ops'[s].kind = "none") =>
    /\ loading' = FALSE
    /\ ~Unknown'
    /\ ( /\ ops[s].resp.user = NoUser
         /\ \/ settled'.outcome \in {"rejected", "ok"}
            \/ ops[s].resp.status \in {401, 403} )
       => (user' = NoUser /\ isAuthenticated' = FALSE)
    /\ (settled'.outcome = "error" /\ ops[s].resp.status \notin {401, 403})
       => (user' = user /\ isAuthenticated' = isAuthenticated)

C6_SendStep(s) ==
  (ops[s].phase = "pending" /\ ops'[s].phase = "responded" /\ jar = EmptyJar) =>
    /\ ops'[s].resp.user = NoUser
    /\ ops'[s].resp.status \in {200, 401, 403, 502}

C6_CheckOnLoad ==
  /\ AutoCheckOut ~> ~AutoCheckOut
  /\ [][\A s \in Slots : C6_SettleStep(s) /\ C6_SendStep(s)]_vars
  /\ [](\A throws \in Throws :
          Me(Request("me", CookiesOf(EmptyJar), NoHeaders, NoBody), throws)
            = MessageResponse(401, "Not authenticated"))

C6_Witness ==
  /\ settled.kind = "check"
  /\ settled.auto
  /\ users = <<>>
  /\ jar = EmptyJar
  /\ loading = FALSE
  /\ user = NoUser
  /\ isAuthenticated = FALSE

\* C10: the mode never changes.  In token mode no Register or Login response
\* sets the user_email cookie and the identity endpoints answer the same
\* whatever the user_email cookie and the x-user-email header hold; in cookie
\* mode no Register or Login response sets the token cookie and the identity
\* endpoints answer the same whatever the token cookie and the Authorization
\* header hold.  The browser's jar never holds both cookies.
Identity(route, req, throws) == IF route = "me" THEN Me(req, throws) ELSE Profile(req, throws)

C10_IssuedByMode(r) ==
  /\ USE_JWT => r.setCookies.user_email.op = "none"
  /\ ~USE_JWT => r.setCookies.token.op = "none"

C10_State ==
  /\ \A req \in LoginRequests : \A throws \in Throws : C10_IssuedByMode(Login(req, throws))
  /\ \A req \in RegisterRequests : \A throws \in Throws :
       C10_IssuedByMode(RegisterLookup(req, throws)) /\ C10_IssuedByMode(RegisterSave(req, throws))
  /\ \A route \in {"me", "profile"} : \A throws \in {"none", "lookup"} :
       IF USE_JWT
       THEN \A t \in TokenChoices \cup {jar.token} : \A a \in AuthorizationChoices :
              Cardinality({Identity(route, Request(route, [token |-> t, user_email |-> e1],
                                                  [authorization |-> a, x_user_email |-> e2], NoBody),
                                    throws) : e1 \in {"", "a@x.com"}, e2 \in {"", "b@x.com"}}) = 1
       ELSE \A e1 \in {"", "a@x.com"} : \A e2 \in {"", "b@x.com"} :
              Cardinality({Identity(route, Request(route, [token |-> t, user_email |-> e1],
                                                  [authorization |-> a, x_user_email |-> e2], NoBody),
                                    throws) : t \in TokenChoices \cup {jar.token},
                                              a \in AuthorizationChoices}) = 1
  /\ ~(jar.token # NoToken /\ jar.user_email # "")

C10_ModeFixedCookiesExclusive == []C10_State /\ [][USE_JWT' = USE_JWT]_vars

C10_Witness ==
  /\ USE_JWT
  /\ settled.kind = "login"
  /\ settled.outcome = "ok"
  /\ jar.token # NoToken
  /\ jar.user_email = ""
  /\ user # NoUser

\* C11: a Logout that the server answered and whose response reached the
\* browser leaves the jar empty; a request sent from an empty jar to
\* GET /api/auth/me or GET /api/profile is answered 401 "Not authenticated",
\* in both modes, whatever happens while it is handled; and an empty jar gets
\* a cookie again only when a login or a register call of this client settles
\* with a delivered success response.
C11_EmptyJarNotAuthenticated ==
  jar = EmptyJar =>
    \A route \in {"me", "profile"} : \A throws \in Throws :
      Identity(route, ClientRequest(route, NoBody), throws)
        = MessageResponse(401, "Not authenticated")

C11_LogoutStep(s) ==
  ( /\ ops[s].kind = "logout" /\ ops[s].phase = "responded" /\ ops[s].resp = Logout
    /\ ops'[s].kind = "none" /\ settled'.outcome = "ok" )
  => jar' = EmptyJar

C11_SessionInvalidatedByLogout ==
  /\ []C11_EmptyJarNotAuthenticated
  /\ [][\A s \in Slots : C11_LogoutStep(s)]_vars
  /\ [][(jar = EmptyJar /\ jar' # EmptyJar) =>
          (settled'.kind \in {"login", "register"} /\ settled'.outcome = "ok")]_vars

\* a logout has just settled and emptied the jar, while the response to a
\* check sent before it, which still resolved to the logged-in user, is out
C11_Witness ==
  /\ settled.kind = "logout"
  /\ settled.outcome = "ok"
  /\ jar = EmptyJar
  /\ \E s \in Slots : /\ ops[s].kind = "check"
                      /\ ops[s].resp.status = 200
                      /\ ops[s].resp.user # NoUser

SessionFor(sc, u) ==
  IF USE_JWT
  THEN /\ sc.token.op = "set"
       /\ sc.token.value.id = u.id
       /\ sc.token.value.email = u.email
       /\ sc.user_email.op = "none"
  ELSE /\ sc.user_email.op = "set"
       /\ sc.user_email.value = u.email
       /\ sc.token.op = "none"

\* C13: a Login response that is not a success sets no cookie, and one that
\* sets a cookie sets it for a stored user with the request's email whose
\* stored hash the request's password verifies against; a Register response
\* that is not a success (400, 409, 500) sets no cookie; GET /api/auth/me and
\* GET /api/profile set none; a jar that takes a response without Set-Cookie
\* is unchanged.
C13_CookieOnlyOnSuccess ==
  /\ \A req \in LoginRequests : \A throws \in Throws :
       LET r == Login(req, throws) IN
       /\ r.status # 200 => r.setCookies = NoSetCookies
       /\ r.setCookies # NoSetCookies =>
            \E i \in 1..Len(users) :
              /\ users[i].email = req.body.email
              /\ Compare(req.body.password, users[i].passwordHash)
              /\ SessionFor(r.setCookies, users[i])
  /\ \A req \in RegisterRequests : \A throws \in Throws :
       /\ RegisterLookup(req, throws).setCookies = NoSetCookies
       /\ RegisterSave(req, throws).status # 200 =>
            RegisterSave(req, throws).setCookies = NoSetCookies
  /\ \A r \in {Me(req, throws) : req \in IdentityRequests("me"), throws \in {"none", "lookup"}}
               \cup {Profile(req, throws) : req \in IdentityRequests("profile"),
                                            throws \in {"none", "lookup"}} :
       r.setCookies = NoSetCookies
  /\ \A j \in {EmptyJar, [token |-> held, tokenExpires |-> held.exp, user_email |-> "a@x.com"]} :
       ApplySetCookies(j, NoSetCookies, now) = j
  /\ (last.req.route \in {"login", "register"} /\ last.resp.status # 200) =>
       last.resp.setCookies = NoSetCookies

\* with two users stored, a Login of the second one has set the session
\* cookie for that user
C13_Witness ==
  /\ last.req.route = "login"
  /\ last.resp.status = 200
  /\ Len(users) = 2
  /\ last.req.body.email = users[2].email
  /\ SessionFor(last.resp.setCookies, users[2])
  /\ ~SessionFor(last.resp.setCookies, users[1])

\* C14: no step of a register() call (the call with its fetch, the server
\* handler's answer, the settling with a success response, an error response
\* or a rejected fetch) changes user or isAuthenticated.
C14_RegisterStep(s) ==
  (ops'[s] # ops[s] /\ (ops[s].kind = "register" \/ ops'[s].kind = "register")) =>
    (user' = user /\ isAuthenticated' = isAuthenticated)

C14_RegisterDoesNotLogIn == [][\A s \in Slots : C14_RegisterStep(s)]_vars

\* a register() of a client that was never logged in has settled with a
\* success response whose session cookie is in the jar, and the client is
\* Unauthenticated
C14_Witness ==
  /\ settled.kind = "register"
  /\ settled.outcome = "ok"
  /\ jar # EmptyJar
  /\ Len(users) = 1
  /\ user = NoUser
  /\ isAuthenticated = FALSE
  /\ loading = FALSE

\* C15: a step that changes the user store is the answer 200 to a Register
\* request and appends exactly one record, with that request's email and the
\* id the response reports, leaving every stored record as it was; so no
\* Login, GET /api/auth/me, GET /api/profile or Logout and no Register
\* answered 400, 409 or 500 changes the store, and nothing is ever deleted or
\* modified.  A Register answered 200 has added one record.
C15_StoreStep ==
  /\ users' # users =>
       /\ last'.req.route = "register"
       /\ last'.resp.status = 200
       /\ Len(users') = Len(users) + 1
       /\ SubSeq(users', 1, Len(users)) = users
       /\ users'[Len(users')].email = last'.req.body.email
       /\ users'[Len(users')].id = last'.resp.user.id
  /\ (last' # last /\ ~(last'.req.route = "register" /\ last'.resp.status = 200)) =>
       users' = users
  /\ (last' # last /\ last'.req.route = "register" /\ last'.resp.status = 200) =>
       Len(users') = Len(users) + 1

C15_StoreChangedOnlyByRegister == [][C15_StoreStep]_vars

\* the second record has been added by a Register answered 200, the first
\* record being what it was
C15_Witness ==
  /\ last.req.route = "register"
  /\ last.resp.status = 200
  /\ Len(users) = 2
  /\ users[2].id = last.resp.user.id
  /\ users[1].id = 1
  /\ users[1].passwordHash = Hash("p1")

\* the step in which the operation of slot s settles as the last one of
\* several that were in flight at once: another operation has settled since
\* the last call was made, and no operation is out afterwards
LastToSettle(s) ==
  /\ ops[s].kind \in {"check", "login", "logout"}
  /\ ops[s].phase = "responded"
  /\ ops'[s].kind = "none"
  /\ settled.kind \in {"check", "login", "logout"}
  /\ \A r \in Slots : ops'[r].kind = "none"

\* whether the operation of slot s, settling with outcome o, writes the
\* identity state, and what it writes
WritesIdentity(s, o) ==
  CASE ops[s].kind = "logout" -> TRUE
    [] ops[s].kind = "check" -> o \in {"rejected", "ok"} \/ ops[s].resp.status \in {401, 403}
    [] ops[s].kind = "login" -> o = "ok" /\ ops[s].parses /\ ops[s].resp.user # NoUser
    [] OTHER -> FALSE

IdentityWritten(s, o) ==
  IF ops[s].kind \in {"check", "login"} /\ o = "ok" /\ ops[s].parses /\ ops[s].resp.user # NoUser
  THEN <<ops[s].resp.user, TRUE>>
  ELSE <<NoUser, FALSE>>

\* C16 as stated: when the last of several overlapping operations settles,
\* the identity state is the one that operation writes from its response.
C16_AsStated ==
  [][\A s \in Slots :
       LastToSettle(s) => <<user', isAuthenticated'>> = IdentityWritten(s, settled'.outcome)]_vars

\* C16 amended: when the last of several overlapping operations settles, the
\* identity state is the one that operation writes from its response alone if
\* it writes at all: a Logout always writes, a CheckStatus writes unless its
\* response has a status other than 2xx / 401 / 403, a Login writes only on a
\* success response with a user.  If it does not write, the identity state
\* stays the one left by the operations that resolved before it.
C16_LastWriterWins ==
  [][\A s \in Slots :
       LastToSettle(s) =>
         IF WritesIdentity(s, settled'.outcome)
         THEN <<user', isAuthenticated'>> = IdentityWritten(s, settled'.outcome)
         ELSE <<user', isAuthenticated'>> = <<user, isAuthenticated>>]_vars

\* a check sent while the session existed has resolved after the logout that
\* emptied the jar: the client shows the user of the check's response
C16_Witness ==
  /\ settled.kind = "check"
  /\ settled.outcome = "ok"
  /\ \A s \in Slots : ops[s].kind = "none"
  /\ jar = EmptyJar
  /\ user # NoUser
  /\ isAuthenticated

\* C17: between the steps of the operations (each applies its result in one
\* step), isAuthenticated is true exactly when user is present.
C17_AuthenticatedIffUser == isAuthenticated <=> user # NoUser

\* in cookie mode a check that found the session has settled while another
\* operation is still out
C17_Witness ==
  /\ ~USE_JWT
  /\ settled.kind = "check"
  /\ settled.outcome = "ok"
  /\ user # NoUser
  /\ isAuthenticated
  /\ \E s \in Slots : ops[s].kind \in {"login", "logout"}

\* an operation that sets or holds the loading flag is out: a login, a
\* register, or the checkAuthStatus of the mount effect
LoadingOpOut ==
  \E s \in Slots : ops[s].kind \in {"login", "register"} \/ (ops[s].kind = "check" /\ ops[s].auto)

\* C18 as stated: while a login, a register or the initial check is out,
\* loading is true.
C18_AsStated == LoadingOpOut => loading

\* C18 amended: loading is true while the mount effect's check has not been
\* sent, a login or register call sets it true, and it turns false only in
\* the step in which a check, a login or a register settles: whichever
\* settles first, also while others are still out.
C18_LoadingStep ==
  /\ \A s \in Slots :
       (ops[s].kind = "none" /\ ops'[s].kind \in {"login", "register"}) => loading'
  /\ (loading /\ ~loading') =>
       \E s \in Slots : /\ ops[s].kind \in {"check", "login", "register"}
                        /\ ops[s].phase = "responded"
                        /\ ops'[s].kind = "none"
  /\ \A s \in Slots :
       (ops[s].kind \in {"check", "login", "register"} /\ ops[s].phase = "responded"
          /\ ops'[s].kind = "none") => ~loading'

C18_LoadingUntilFirstSettle ==
  /\ [](\A s \in Slots : ops[s].phase = "pending" => loading)
  /\ [][C18_LoadingStep]_vars

\* a login is still out and loading is false: another operation has settled
C18_Witness ==
  /\ \E s \in Slots : ops[s].kind = "login"
  /\ settled.kind \in {"check", "login", "register"}
  /\ loading = FALSE

\* C19 as stated: when a checkAuthStatus call settles with a delivered
\* response that carries no user (whatever its status), the client is
\* Unauthenticated afterwards: user absent, isAuthenticated false.
C19_CheckStep(s) ==
  ( /\ ops[s].kind = "check" /\ ops[s].phase = "responded" /\ ops'[s].kind = "none"
    /\ settled'.outcome # "rejected"
    /\ ops[s].resp.user = NoUser )
  => (user' = NoUser /\ isAuthenticated' = FALSE)

C19_CheckAgreesWithServer == [][\A s \in Slots : C19_CheckStep(s)]_vars

\* the tokens the server has issued that the state still holds: in the
\* browser's jar or in a response on its way to the browser
IssuedTokens ==
  ({jar.token} \cup {ops[s].resp.setCookies.token.value : s \in Slots}) \ {NoToken}

\* C20 as stated, for a requester that never registered and never logged in:
\* no request it builds resolves to a user, in either mode.
C20_AsStated ==
  last.req.route \in {"me", "profile"} => last.resp.status # 200

\* C20 amended.  The requester that never registered or logged in holds no
\* issued token.  In token mode no request it builds resolves (a token not
\* signed by the server is rejected also when it names a stored user), and a
\* request with an issued token resolves exactly while the token has not
\* expired, to the user the token was issued for.  In cookie mode a request
\* resolves exactly when the e-mail it carries in the user_email cookie, or
\* else in the x-user-email header, is a stored user's, to that user,
\* whoever chose the value.
C20_ResolutionByCredential ==
  /\ held = NoToken
  /\ \A route \in {"me", "profile"} : \A req \in IdentityRequests(route) :
       \A throws \in {"none", "lookup"} :
         LET r == Identity(route, req, throws) IN
         IF USE_JWT
         THEN r.status # 200
         ELSE /\ r.status = 200 =>
                   (RequestEmail(req) # "" /\ Stored(RequestEmail(req))
                      /\ r.user.email = RequestEmail(req))
              /\ (throws = "none" /\ Stored(RequestEmail(req))) => r.status = 200
  /\ USE_JWT =>
       \A t \in IssuedTokens : \A route \in {"me", "profile"} :
         LET r == Identity(route, Request(route, [token |-> t, user_email |-> ""],
                                          NoHeaders, NoBody), "none") IN
         /\ t.sig = "JWT_SECRET"
         /\ FindById(users, t.id).email = t.email
         /\ r.status = 200 <=> now < t.exp
         /\ r.status = 200 => r.user.email = t.email
  /\ (last.req.route \in {"me", "profile"} /\ last.resp.status = 200) => ~USE_JWT

\* token mode: the browser holds the token issued for the stored user, and the
\* requester's request with a token of its own making that names that user
\* has been answered 401
C20_Witness ==
  /\ USE_JWT
  /\ jar.token # NoToken
  /\ last.req.route = "me"
  /\ last.req.cookies.token = ForgedToken
  /\ ForgedToken.id = jar.token.id
  /\ ForgedToken.email = jar.token.email
  /\ last.resp = MessageResponse(401, "Invalid or expired token")

====
